---- MODULE Spec2Model ----
(***************************************************************************)
(* Model of the parquet ingestion / compaction scripts                     *)
(*   src/scripts/ingestion.py   (main, process_single_file, process_table) *)
(*   src/scripts/compaction.py  (main, compact_dataset)                    *)
(* The dataset writer the scripts call (pyarrow.dataset.write_dataset) is  *)
(* modelled at the call sites, with the parameters the scripts pass.       *)
(***************************************************************************)
EXTENDS Integers, Sequences, FiniteSets, Bags, TLC

VARIABLES
  cmd,          \* which script runs: "compaction" | "ingestion" | "transform"
  pc,           \* position of the running script
  error,        \* name of the exception that ended the run, or "none"
  cfg,          \* command-line thresholds of compaction.py
  inExists,     \* in_path.is_dir()
  outExists,    \* out_path.is_dir()
  inFS,         \* files under in-path:  path -> file
  outFS,        \* files under out-path: path -> file
  queue,        \* input fragments not yet read (scanner / batch_queue)
  writer,       \* per-directory state of the running write_dataset call
  table,        \* table loaded by process_single_file
  out_table,    \* table returned by process_table
  uuid,         \* number of uuid4() values drawn so far
  runs,         \* completed runs of the command
  outAtStart,   \* history: out-path (exists, file paths) when the run started
  firstRun,     \* history: logical dataset after the first completed run
  written,      \* history: paths created by the current run
  layout,       \* how --in-path and --out-path lie relative to each other
  processed,    \* history: times each file was read by the current run
  inAtStart     \* history: paths under in-path when the run started

vars == <<cmd, pc, error, cfg, inExists, outExists, inFS, outFS, queue,
          writer, table, out_table, uuid, runs, outAtStart, firstRun, written,
          layout, processed, inAtStart>>

-----------------------------------------------------------------------------
(* Bounds of the model *)

MaxRows == 3          \* rows in the whole input dataset
MaxThreshold == 2     \* largest value of a --*-rows-per-* option
MaxStale == 3         \* files already present in an output partition
MaxRuns == 2          \* runs of the command against the same roots
MaxTableRows == 3     \* rows of a table handed to process_table
MaxReingest == 1      \* written files the glob of one ingestion run yields
WindowDays == 62      \* days of the datetime window, from FirstDay

-----------------------------------------------------------------------------
(* Calendar: what pandas' .dt.year/.dt.month/.dt.day return for a          *)
(* timestamp, here counted in hours since 1970-01-01T00:00.                *)

HoursPerDay == 24
FirstDay == 18261     \* 2019-12-31, in days since the epoch

\* Days from 1970-01-01 to 2000-01-01, the start of a 400-year cycle.
DaysTo2000 == 10957
DaysPer400Years == 146097
DaysPer100Years == 36524
DaysPer4Years == 1461

IsLeapYear(y) == (y % 4 = 0 /\ y % 100 # 0) \/ y % 400 = 0

DaysInMonth(y, m) ==
  IF m = 2 THEN (IF IsLeapYear(y) THEN 29 ELSE 28)
  ELSE IF m \in {4, 6, 9, 11} THEN 30 ELSE 31

\* Year and day within the year of a day number: the 400-, 100-, 4- and
\* 1-year cycles counted from the year 2000.
YearSplit(epochDays) ==
  LET d0 == epochDays - DaysTo2000
      y400 == 400 * (d0 \div DaysPer400Years)
      d400 == d0 % DaysPer400Years
      in100 == d400 >= 366
      y100 == IF in100 THEN 100 * ((d400 - 1) \div DaysPer100Years) ELSE 0
      d100 == IF in100 THEN (d400 - 1) % DaysPer100Years ELSE d400
      in4 == in100 /\ d100 >= 365
      y4 == IF in4 THEN 4 * ((d100 + 1) \div DaysPer4Years) ELSE 0
      d4 == IF in4 THEN (d100 + 1) % DaysPer4Years ELSE d100
      in1 == in4 /\ d4 >= 366
      y1 == IF in1 THEN (d4 - 1) \div 365 ELSE 0
      d1 == IF in1 THEN (d4 - 1) % 365 ELSE d4
  IN  [year |-> 2000 + y400 + y100 + y4 + y1, doy |-> d1]

RECURSIVE MonthSplit(_, _, _)
MonthSplit(y, m, d) ==
  IF d < DaysInMonth(y, m) THEN [month |-> m, day |-> d + 1]
  ELSE MonthSplit(y, m + 1, d - DaysInMonth(y, m))

\* The (year, month, day) fields of a timestamp.
DateFields(ts) ==
  LET ys == YearSplit(ts \div HoursPerDay)
      ms == MonthSplit(ys.year, 1, ys.doy)
  IN  [year |-> ys.year, month |-> ms.month, day |-> ms.day]

dt_year(ts) == DateFields(ts).year

\* Mutant: the day counted from 0.
dt_day_from_zero(ts) == DateFields(ts).day - 1

dt_month(ts) == DateFields(ts).month
dt_day(ts) == DateFields(ts).day

-----------------------------------------------------------------------------
(* Tables: an ordered schema and one array per column. *)

EmptyTable == [schema |-> <<>>, columns |-> <<>>]

num_rows(t) == IF t.columns = <<>> THEN 0 ELSE Len(t.columns[1])

ColumnIndex(t, name) == CHOOSE i \in 1..Len(t.schema) : t.schema[i] = name

Column(t, name) == t.columns[ColumnIndex(t, name)]

append_column(t, name, array) ==
  [schema |-> Append(t.schema, name), columns |-> Append(t.columns, array)]

\* Row i of a table, as the tuple of its values in schema order.
RowOf(t, i) == [c \in 1..Len(t.schema) |-> t.columns[c][i]]

RowsOf(t) == [i \in 1..num_rows(t) |-> RowOf(t, i)]

\* process_table: append year, month and day derived from "datetime".
process_table(t) ==
  LET dt_series == Column(t, "datetime")
      n == Len(dt_series)
      y == [i \in 1..n |-> dt_year(dt_series[i])]
      m == [i \in 1..n |-> dt_month(dt_series[i])]
      d == [i \in 1..n |-> dt_day(dt_series[i])]
  IN  append_column(append_column(append_column(t, "year", y), "month", m),
                    "day", d)

-----------------------------------------------------------------------------
(* Sequences, bags and the file system *)

Min(a, b) == IF a < b THEN a ELSE b

Range(s) == {s[i] : i \in 1..Len(s)}

RECURSIVE Concat(_)
Concat(ss) == IF ss = <<>> THEN <<>> ELSE Head(ss) \o Concat(Tail(ss))

BagOfSeq(s) == [x \in Range(s) |-> Cardinality({i \in 1..Len(s) : s[i] = x})]

\* A file system is a function from paths [dir, name] to files
\* [schema, groups, open]; the root directory is <<>>, a hive partition
\* directory year=<y>/month=<m> is <<y, m>>.
EmptyFS == [p \in {} |-> 0]

Root == <<>>

IsUnder(dir, prefix) ==
  Len(prefix) <= Len(dir) /\ SubSeq(dir, 1, Len(prefix)) = prefix

Restrict(fs, paths) == [p \in paths |-> fs[p]]

\* Mutant: the deletion removes nothing.
RemoveNothing(fs, prefix) == fs

\* shutil.rmtree / DeleteDirContents: drop every file below a directory.
RemoveUnder(fs, prefix) ==
  Restrict(fs, {p \in DOMAIN fs : ~IsUnder(p.dir, prefix)})

\* Rows of a file, in file order, over all its written row groups.
FileRows(f) == Concat(f.groups)

FileRowCount(f) == Len(FileRows(f))

RECURSIVE RowsOfPaths(_, _)
RowsOfPaths(fs, paths) ==
  IF paths = {} THEN <<>>
  ELSE LET p == CHOOSE q \in paths : TRUE
       IN  FileRows(fs[p]) \o RowsOfPaths(fs, paths \ {p})

\* The columns the generator wrote: datetime and batch (data_gen.get_batch).
OriginalColumns == 2

Project(row) == SubSeq(row, 1, OriginalColumns)

ProjectAll(rows) == [i \in 1..Len(rows) |-> Project(rows[i])]

\* The multiset of rows below a root, without the added date columns.
RowBag(fs) == BagOfSeq(ProjectAll(RowsOfPaths(fs, DOMAIN fs)))

\* The logical dataset: the multiset of (partition key, row) pairs.
RECURSIVE KeyedRowsOfPaths(_, _)
KeyedRowsOfPaths(fs, paths) ==
  IF paths = {} THEN <<>>
  ELSE LET p == CHOOSE q \in paths : TRUE
           rows == FileRows(fs[p])
       IN  [i \in 1..Len(rows) |-> <<p.dir, rows[i]>>]
             \o KeyedRowsOfPaths(fs, paths \ {p})

LogicalDataset(fs) == BagOfSeq(KeyedRowsOfPaths(fs, DOMAIN fs))

-----------------------------------------------------------------------------
(* The dataset writer behind ds.write_dataset, as parametrised by the two  *)
(* call sites.  An options record o carries                                *)
(*   max_rows_per_file, min_rows_per_group, max_rows_per_group,            *)
(*   existing_data_behavior and the uuid of basename_template.             *)

\* pyarrow's defaults, which process_single_file leaves in place.
DEFAULT_MAX_ROWS_PER_GROUP == 1048576

IngestionOptions(uid) ==
  [max_rows_per_file |-> 0, min_rows_per_group |-> 0,
   max_rows_per_group |-> DEFAULT_MAX_ROWS_PER_GROUP,
   existing_data_behavior |-> "overwrite_or_ignore", uuid |-> uid]

CompactionOptions(c, uid) ==
  [max_rows_per_file |-> c.max_rows_per_file,
   min_rows_per_group |-> c.min_rows_per_group,
   max_rows_per_group |-> c.max_rows_per_group,
   existing_data_behavior |-> "delete_matching", uuid |-> uid]

\* The writer rejects inconsistent thresholds before it writes anything.
ValidOptions(o) ==
  /\ o.max_rows_per_group > 0
  /\ o.min_rows_per_group >= 0
  /\ o.min_rows_per_group <= o.max_rows_per_group
  /\ (o.max_rows_per_file > 0 => o.max_rows_per_group <= o.max_rows_per_file)

\* partitioning=['year', 'month'], hive flavor: the directory of a row.
PartitionColumns == {"year", "month"}

\* Mutant: rows routed by year alone, every row under month=1.
PartitionKeyYearOnly(t, i) == <<Column(t, "year")[i], 1>>

PartitionKey(t, i) == <<Column(t, "year")[i], Column(t, "month")[i]>>

\* Positions of the columns stored in the files (partition columns are
\* encoded in the directory name and dropped from the file).
StoredColumns(t) ==
  SelectSeq([c \in 1..Len(t.schema) |-> c],
            LAMBDA c : t.schema[c] \notin PartitionColumns)

StoredSchema(t) ==
  LET sc == StoredColumns(t) IN [k \in 1..Len(sc) |-> t.schema[sc[k]]]

StoredRow(t, i) ==
  LET sc == StoredColumns(t) IN [k \in 1..Len(sc) |-> t.columns[sc[k]][i]]

\* Rows of table t routed to key, in table order.
RoutedRows(t, key) ==
  LET idx == SelectSeq([i \in 1..num_rows(t) |-> i],
                       LAMBDA i : PartitionKey(t, i) = key)
  IN  [k \in 1..Len(idx) |-> StoredRow(t, idx[k])]

KeysOf(t) == {PartitionKey(t, i) : i \in 1..num_rows(t)}

\* Mutant: the template without the uuid (pyarrow's default part-{i}).
BasenameWithoutUuid(uid, i) == <<0, i>>

\* basename_template=f'{uuid4()}-{{i}}.parquet'
Basename(uid, i) == <<uid, i>>

NoPath == [dir |-> Root, name |-> <<>>]

NewQueue == [file_idx |-> 0, cur |-> NoPath, rows_written |-> 0, staged |-> <<>>]

NewFile(schema) == [schema |-> schema, groups |-> <<>>, open |-> TRUE]

\* Mutant: the current file takes every row, whatever it already holds.
RowsAvailableUnlimited(o, q, n) == n

\* Rows the current file of a directory can still take.
RowsAvailable(o, q, n) ==
  IF o.max_rows_per_file > 0 THEN o.max_rows_per_file - q.rows_written ELSE n

\* Mutant: staged rows are written at once, whatever the minimum.
StagedReadyAlways(o, staged) == TRUE

\* Staged rows are written as a row group once enough have accumulated.
StagedReady(o, staged) == Len(staged) >= o.min_rows_per_group

\* Size of the next row group cut from the staged rows.
GroupSize(o, staged) == Min(Len(staged), o.max_rows_per_group)

\* Push: deliver row groups while the staged rows are ready.
RECURSIVE PopStaged(_, _, _)
PopStaged(o, groups, staged) ==
  IF staged = <<>> \/ ~StagedReady(o, staged)
  THEN [groups |-> groups, staged |-> staged]
  ELSE LET n == GroupSize(o, staged)
       IN  PopStaged(o, Append(groups, SubSeq(staged, 1, n)),
                     SubSeq(staged, n + 1, Len(staged)))

\* Mutant: rows still staged when a file is closed are dropped.
FinishGroupsDropStaged(o, groups, staged) == groups

\* Finish of a file: every staged row is written, whatever the minimum.
RECURSIVE FinishGroups(_, _, _)
FinishGroups(o, groups, staged) ==
  IF staged = <<>> THEN groups
  ELSE LET n == GroupSize(o, staged)
       IN  FinishGroups(o, Append(groups, SubSeq(staged, 1, n)),
                        SubSeq(staged, n + 1, Len(staged)))

\* A writer state ws is [fs, wr, made]: the output files, the directory
\* queues of this call and the paths this call created.

\* First batch of a directory: create it and, under delete_matching,
\* delete what it contains.
PrepareDirectory(ws, o, key) ==
  [fs |-> IF o.existing_data_behavior = "delete_matching"
          THEN RemoveUnder(ws.fs, key) ELSE ws.fs,
   wr |-> (key :> NewQueue) @@ ws.wr,
   made |-> ws.made]

\* Close the current file of a directory, writing what is staged.
FinishCurrentFile(ws, o, key) ==
  LET q == ws.wr[key]
  IN  IF q.cur = NoPath THEN ws
      ELSE [fs |-> [ws.fs EXCEPT ![q.cur] =
                      [@ EXCEPT !.groups = FinishGroups(o, @, q.staged),
                                !.open = FALSE]],
            wr |-> [ws.wr EXCEPT ![key] =
                      [q EXCEPT !.cur = NoPath, !.rows_written = 0,
                                !.staged = <<>>]],
            made |-> ws.made]

\* Write the rows routed to one directory: fill the current file up to
\* max_rows_per_file, roll to the next file while rows remain.
RECURSIVE WriteRows(_, _, _, _, _)
WriteRows(ws, o, key, schema, rows) ==
  LET q == ws.wr[key]
      take == Min(RowsAvailable(o, q, Len(rows)), Len(rows))
      chunk == SubSeq(rows, 1, take)
      rest == SubSeq(rows, take + 1, Len(rows))
      willOpen == q.rows_written = 0
      path == IF willOpen
              THEN [dir |-> key, name |-> Basename(o.uuid, q.file_idx)]
              ELSE q.cur
      fs1 == IF willOpen THEN (path :> NewFile(schema)) @@ ws.fs ELSE ws.fs
      popped == PopStaged(o, fs1[path].groups, q.staged \o chunk)
      ws1 == [fs |-> [fs1 EXCEPT ![path].groups = popped.groups],
              wr |-> [ws.wr EXCEPT ![key] =
                        [file_idx |-> IF willOpen THEN q.file_idx + 1
                                      ELSE q.file_idx,
                         cur |-> path,
                         rows_written |-> q.rows_written + take,
                         staged |-> popped.staged]],
              made |-> IF willOpen THEN ws.made \cup {path} ELSE ws.made]
  IN  IF rest = <<>> THEN ws1
      ELSE WriteRows(FinishCurrentFile(ws1, o, key), o, key, schema, rest)

WriteSubBatch(ws, o, key, schema, rows) ==
  WriteRows(IF key \in DOMAIN ws.wr THEN ws ELSE PrepareDirectory(ws, o, key),
            o, key, schema, rows)

\* Route a table and write every sub-batch.
RECURSIVE WriteKeys(_, _, _, _)
WriteKeys(ws, o, t, keys) ==
  IF keys = {} THEN ws
  ELSE LET key == CHOOSE k \in keys : TRUE
       IN  WriteKeys(WriteSubBatch(ws, o, key, StoredSchema(t),
                                   RoutedRows(t, key)),
                     o, t, keys \ {key})

WriteTable(ws, o, t) == WriteKeys(ws, o, t, KeysOf(t))

\* End of the stream: every directory's current file is finished.
RECURSIVE FinishKeys(_, _, _)
FinishKeys(ws, o, keys) ==
  IF keys = {} THEN ws
  ELSE LET key == CHOOSE k \in keys : TRUE
       IN  FinishKeys(FinishCurrentFile(ws, o, key), o, keys \ {key})

\* Mutant: write_dataset returns without finishing the open files.
FinishWriterNothing(ws, o) == ws

FinishWriter(ws, o) == FinishKeys(ws, o, DOMAIN ws.wr)

-----------------------------------------------------------------------------
(* Reading the input *)

\* The table a closed file holds (dataset.to_table()).
TableOfFile(f) ==
  LET rows == FileRows(f)
  IN  [schema |-> f.schema,
       columns |-> [c \in 1..Len(f.schema) |->
                      [i \in 1..Len(rows) |-> rows[i][c]]]]

\* A fragment of a hive dataset: the file's columns plus the partition
\* columns parsed from its directory year=<y>/month=<m>.
HiveTable(p, f) ==
  LET t == TableOfFile(f)
      n == num_rows(t)
  IN  append_column(append_column(t, "year", [i \in 1..n |-> p.dir[1]]),
                    "month", [i \in 1..n |-> p.dir[2]])

\* A flat file as data_gen.py writes it: a datetime and a batch column.
GeneratedTable(dts, batch_index) ==
  [schema |-> <<"datetime", "batch">>,
   columns |-> <<dts, [i \in 1..Len(dts) |-> batch_index]>>]

ClosedFile(schema, rows) ==
  [schema |-> schema, groups |-> <<rows>>, open |-> FALSE]

\* The file ingestion leaves for a table whose rows share one key.
IngestedPath(t, name) ==
  LET first == Column(t, "datetime")[1]
  IN  [dir |-> <<dt_year(first), dt_month(first)>>, name |-> name]

IngestedFile(t) ==
  LET pt == process_table(t)
  IN  ClosedFile(StoredSchema(pt), RoutedRows(pt, PartitionKey(pt, 1)))

-----------------------------------------------------------------------------
(* Initial states *)

SampleDatetimes ==
  {(FirstDay + 15) * HoursPerDay,          \* 2020-01-15 00:00
   (FirstDay + 31) * HoursPerDay + 23,     \* 2020-01-31 23:00
   (FirstDay + 32) * HoursPerDay}          \* 2020-02-01 00:00

StaleDatetimes ==
  {(FirstDay + 15) * HoursPerDay,          \* a partition the input may fill
   (FirstDay + 61) * HoursPerDay}          \* a partition the input never fills

\* The one-row table of a stale file.
StaleTable(ts) == GeneratedTable(<<ts>>, 99)

\* An output root left by an earlier run: s files in each stale partition.
StaleFS(s) ==
  LET paths == {IngestedPath(StaleTable(ts), Basename(0, j)) :
                  ts \in StaleDatetimes, j \in 0..(s - 1)}
      tsOf(p) == CHOOSE ts \in StaleDatetimes :
                   IngestedPath(StaleTable(ts), p.name) = p
  IN  [p \in paths |-> IngestedFile(StaleTable(tsOf(p)))]

\* The ways to cut rows 1..n into consecutive files.
Cuts(n) ==
  {c \in [1..n -> 1..n] :
     /\ n > 0 => c[1] = 1
     /\ \A i \in 1..(n - 1) : c[i + 1] \in {c[i], c[i] + 1}}

RowsOfFile(dts, cut, f) ==
  LET idx == SelectSeq([i \in 1..Len(dts) |-> i], LAMBDA i : cut[i] = f)
  IN  [k \in 1..Len(idx) |-> dts[idx[k]]]

\* The name data_gen.py gives the file of its f-th batch: one uuid4 per
\* write_dataset call, {i} = 0.
InputName(f) == <<f, 0>>

FlatInput(dts, cut) ==
  LET files == {cut[i] : i \in 1..Len(dts)}
  IN  [p \in {[dir |-> Root, name |-> InputName(f)] : f \in files} |->
         LET t == GeneratedTable(RowsOfFile(dts, cut, p.name[1]), p.name[1] - 1)
         IN  ClosedFile(t.schema, RowsOf(t))]

KeyOfDatetime(ts) == <<dt_year(ts), dt_month(ts)>>

HomogeneousCut(dts, cut) ==
  \A i, j \in 1..Len(dts) :
    cut[i] = cut[j] => KeyOfDatetime(dts[i]) = KeyOfDatetime(dts[j])

HiveInput(dts, cut) ==
  LET files == {cut[i] : i \in 1..Len(dts)}
      tbl(f) == GeneratedTable(RowsOfFile(dts, cut, f), f - 1)
  IN  [p \in {IngestedPath(tbl(f), InputName(f)) : f \in files} |->
         IngestedFile(tbl(p.name[1]))]

\* --in-path and --out-path are any two paths: disjoint, the same
\* directory, or one inside the other.
Layouts == {"disjoint", "same", "in_under_out", "out_under_in"}

InPathInsideOutPath == layout \in {"same", "in_under_out"}

\* The files under in-path.  inFS holds those outside out-path (all of them
\* when in-path is out-path or lies inside it); when out-path lies inside
\* in-path the files of outFS are under in-path too.
\* A file is named by the root it was reached through and its path there.
UnderInPath ==
  [x \in ({"in"} \X DOMAIN inFS) \cup
          (IF layout = "out_under_in" THEN {"out"} \X DOMAIN outFS ELSE {})
     |-> IF x[1] = "in" THEN inFS[x[2]] ELSE outFS[x[2]]]

\* The name of a path the glob of in-path yields (the flat input files lie
\* in the root, the written files in year=<y>/month=<m> directories).
Yielded(p) == IF p \in DOMAIN inFS THEN <<"in", p>> ELSE <<"out", p>>

NoneProcessed == [p \in {} |-> 0]

\* One more read of file p.
Count(counts, p) ==
  IF p \in DOMAIN counts THEN [counts EXCEPT ![p] = @ + 1]
  ELSE (p :> 1) @@ counts

UniqueNames(schema) ==
  \A i, j \in 1..Len(schema) : schema[i] = schema[j] => i = j

\* path.glob('**/*.parquet') is a generator that lists a directory when
\* the walk reaches it: the files a call has just written under in-path
\* are yielded later, or not, directory by directory.
GlobSees(made) ==
  {{}} \cup
  (IF layout = "out_under_in"
   THEN {{q \in made : q.dir \in dirs} :
           dirs \in {D \in SUBSET {q.dir : q \in made} :
                       /\ D # {}
                       /\ Cardinality({x \in DOMAIN processed : x[1] = "out"})
                          + Cardinality(queue \ DOMAIN inFS)
                          + Cardinality({q \in made : q.dir \in D})
                            <= MaxReingest}}
   ELSE {})

Thresholds == 0..MaxThreshold

NoCfg == [max_rows_per_file |-> 0, min_rows_per_group |-> 0,
          max_rows_per_group |-> 0]

EmptyWriter == [k \in {} |-> 0]

InitOutput ==
  \E s \in {0, MaxStale} :
    /\ outFS = StaleFS(s)
    /\ outExists \in (IF s > 0 THEN {TRUE} ELSE BOOLEAN)

InitInput ==
  \/ /\ inExists = FALSE
     /\ inFS = EmptyFS
  \/ /\ inExists = TRUE
     /\ \E n \in 0..MaxRows :
          \E dts \in [1..n -> SampleDatetimes] :
            \E cut \in Cuts(n) :
              IF cmd = "ingestion" THEN inFS = FlatInput(dts, cut)
              ELSE HomogeneousCut(dts, cut) /\ inFS = HiveInput(dts, cut)

InitRun ==
  /\ pc = "main"
  /\ error = "none"
  /\ queue = {}
  /\ writer = EmptyWriter
  /\ table = EmptyTable
  /\ out_table = EmptyTable
  /\ uuid = 0
  /\ runs = 0
  /\ firstRun = <<>>
  /\ written = {}
  /\ outAtStart = [exists |-> outExists, paths |-> DOMAIN outFS]
  /\ processed = NoneProcessed
  /\ inAtStart = DOMAIN UnderInPath

InitCfg ==
  IF cmd = "compaction"
  THEN cfg \in [max_rows_per_file : Thresholds,
                min_rows_per_group : Thresholds,
                max_rows_per_group : Thresholds]
  ELSE cfg = NoCfg

Init ==
  /\ layout = "disjoint"
  /\ cmd \in {"compaction", "ingestion"}
  /\ InitInput
  /\ InitOutput
  /\ InitCfg
  /\ InitRun

\* Any two roots the command line accepts.
InitAlias ==
  /\ layout \in Layouts
  /\ cmd \in {"compaction", "ingestion"}
  /\ InitInput
  /\ CASE layout = "same" -> outFS = inFS /\ outExists = inExists
       [] layout = "in_under_out" -> InitOutput /\ (inExists => outExists)
       [] layout = "out_under_in" -> InitOutput /\ (outExists => inExists)
       [] OTHER -> InitOutput
  /\ InitCfg
  /\ InitRun

-----------------------------------------------------------------------------
(* main of both scripts *)

\* Mutant: main without the in_path.is_dir() check.
MainWithoutCheck ==
  /\ pc = "main"
  /\ pc' = "rmtree"
  /\ UNCHANGED <<cmd, layout, processed, inAtStart,
                 error, cfg, inExists, outExists, inFS, outFS, queue,
                 writer, table, out_table, uuid, runs, outAtStart, firstRun,
                 written>>

\* if not in_path.is_dir(): raise FileNotFoundError
MainCheckInPath ==
  /\ pc = "main"
  /\ IF inExists
     THEN pc' = "rmtree" /\ error' = error
     ELSE pc' = "raised" /\ error' = "FileNotFoundError"
  /\ UNCHANGED <<cmd, layout, processed, inAtStart,
                 cfg, inExists, outExists, inFS, outFS, queue, writer,
                 table, out_table, uuid, runs, outAtStart, firstRun, written>>

\* if out_path.is_dir(): shutil.rmtree(out_path); ingestion then builds its
\* batch queue, compaction calls compact_dataset.
MainRmtree ==
  /\ pc = "rmtree"
  /\ IF outExists
     THEN /\ outFS' = RemoveUnder(outFS, Root)
          /\ outExists' = FALSE
          /\ IF InPathInsideOutPath
             THEN inFS' = RemoveUnder(inFS, Root) /\ inExists' = FALSE
             ELSE UNCHANGED <<inFS, inExists>>
     ELSE UNCHANGED <<outFS, outExists, inFS, inExists>>
  /\ IF cmd = "ingestion"
     THEN pc' = "loop" /\ queue' = DOMAIN inFS'
     ELSE pc' = "compact_dataset" /\ queue' = queue
  /\ UNCHANGED <<cmd, layout, processed, inAtStart,
                 error, cfg, writer, table, out_table,
                 uuid, runs, outAtStart, firstRun, written>>

-----------------------------------------------------------------------------
(* ingestion.py *)

\* One iteration of main's loop: process_single_file on one input file.
ProcessSingleFile ==
  /\ pc = "loop"
  /\ \E p \in queue :
       LET t == TableOfFile(UnderInPath[Yielded(p)])
           ot == process_table(t)
           o == IngestionOptions(uuid + 1)
           ws0 == [fs |-> outFS, wr |-> EmptyWriter, made |-> {}]
           ws == FinishWriter(WriteTable(ws0, o, ot), o)
       IN  /\ table' = t
           /\ out_table' = ot
           /\ processed' = Count(processed, Yielded(p))
           /\ \/ /\ outFS' = ws.fs
                 /\ written' = written \cup ws.made
                 /\ outExists' = TRUE
                 /\ queue' \in {(queue \ {p}) \cup seen :
                                 seen \in GlobSees(ws.made)}
                 /\ UNCHANGED <<pc, error>>
              \/ \* a written file read back has a day column already: the
                 \* table has two, which the writer may reject
                 /\ ~UniqueNames(ot.schema)
                 /\ pc' = "raised"
                 /\ error' = "ArrowInvalid"
                 /\ queue' = queue \ {p}
                 /\ UNCHANGED <<outFS, written, outExists>>
  /\ uuid' = uuid + 1
  /\ UNCHANGED <<cmd, layout, inAtStart, cfg, inExists, inFS, writer, runs,
                 outAtStart, firstRun>>

\* The batch queue is exhausted: main returns.
IngestionDone ==
  /\ pc = "loop"
  /\ queue = {}
  /\ pc' = "done"
  /\ runs' = runs + 1
  /\ firstRun' = IF runs = 0 THEN LogicalDataset(outFS) ELSE firstRun
  /\ UNCHANGED <<cmd, layout, processed, inAtStart,
                 error, cfg, inExists, outExists, inFS, outFS, queue,
                 writer, table, out_table, uuid, outAtStart, written>>

-----------------------------------------------------------------------------
(* compaction.py *)

\* compact_dataset up to the start of the write: open the input dataset,
\* resolve the partitioning against its schema, validate the thresholds.
CompactOpen ==
  /\ pc = "compact_dataset"
  /\ IF ~inExists
     THEN /\ pc' = "raised" /\ error' = "FileNotFoundError"
          /\ UNCHANGED <<queue, uuid>>
     ELSE IF DOMAIN inFS = {}
     THEN /\ pc' = "raised" /\ error' = "KeyError"
          /\ UNCHANGED <<queue, uuid>>
     ELSE IF ~ValidOptions(CompactionOptions(cfg, uuid + 1))
     THEN /\ pc' = "raised" /\ error' = "ArrowInvalid"
          /\ UNCHANGED <<queue, uuid>>
     ELSE /\ pc' = "write_dataset" /\ error' = error
          /\ queue' = DOMAIN inFS
          /\ uuid' = uuid + 1
  /\ writer' = EmptyWriter
  /\ UNCHANGED <<cmd, layout, processed, inAtStart,
                 cfg, inExists, outExists, inFS, outFS, table,
                 out_table, runs, outAtStart, firstRun, written>>

\* The scanner delivers one more batch (in no fixed order) and the writer
\* routes and writes it.
CompactWriteBatch ==
  /\ pc = "write_dataset"
  /\ \E p \in queue :
       LET o == CompactionOptions(cfg, uuid)
           ws0 == [fs |-> outFS, wr |-> writer, made |-> written]
           ws == WriteTable(ws0, o, HiveTable(p, inFS[p]))
       IN  /\ outFS' = ws.fs
           /\ writer' = ws.wr
           /\ written' = ws.made
           /\ queue' = queue \ {p}
           /\ processed' = Count(processed, <<"in", p>>)
  /\ outExists' = TRUE
  /\ UNCHANGED <<cmd, layout, inAtStart,
                 pc, error, cfg, inExists, inFS, table, out_table, uuid,
                 runs, outAtStart, firstRun>>

\* The scanner is exhausted: every open file is finished and
\* compact_dataset returns.
CompactFinish ==
  /\ pc = "write_dataset"
  /\ queue = {}
  /\ LET o == CompactionOptions(cfg, uuid)
         ws == FinishWriter([fs |-> outFS, wr |-> writer, made |-> written], o)
     IN  /\ outFS' = ws.fs
         /\ writer' = ws.wr
         /\ firstRun' = IF runs = 0 THEN LogicalDataset(ws.fs) ELSE firstRun
  /\ pc' = "done"
  /\ runs' = runs + 1
  /\ UNCHANGED <<cmd, layout, processed, inAtStart,
                 error, cfg, inExists, outExists, inFS, queue, table,
                 out_table, uuid, outAtStart, written>>

-----------------------------------------------------------------------------
(* The environment: the command is run again, or killed *)

Rerun ==
  /\ pc = "done"
  /\ runs < MaxRuns
  /\ pc' = "main"
  /\ outAtStart' = [exists |-> outExists, paths |-> DOMAIN outFS]
  /\ written' = {}
  /\ processed' = NoneProcessed
  /\ inAtStart' = DOMAIN UnderInPath
  /\ UNCHANGED <<cmd, layout,
                 error, cfg, inExists, outExists, inFS, outFS, queue,
                 writer, table, out_table, uuid, runs, firstRun>>

Abort ==
  /\ pc \in {"rmtree", "compact_dataset", "write_dataset", "loop"}
  /\ pc' = "aborted"
  /\ UNCHANGED <<cmd, layout, processed, inAtStart,
                 error, cfg, inExists, outExists, inFS, outFS, queue,
                 writer, table, out_table, uuid, runs, outAtStart, firstRun,
                 written>>

Next ==
  \/ MainCheckInPath
  \/ MainRmtree
  \/ ProcessSingleFile
  \/ IngestionDone
  \/ CompactOpen
  \/ CompactWriteBatch
  \/ CompactFinish

\* One run of a command.
Spec == Init /\ [][Next]_vars

\* The command is run again on the same input and output root.
NextRerun == Next \/ Rerun

SpecRerun == Init /\ [][NextRerun]_vars

\* The command may be killed at any point after it started.
NextAbort == Next \/ Abort

SpecAbort == Init /\ [][NextAbort]_vars

\* One run of a command on any two roots.
SpecAlias == InitAlias /\ [][Next]_vars

\* A statement of main remains to be executed: some step of Next is
\* possible and changes the state (it moves pc or shortens the queue).
Running ==
  pc \in {"main", "rmtree", "loop", "compact_dataset", "write_dataset"}

\* One run that is not killed: the interpreter keeps executing the next
\* statement of main, and a finite scanner delivers every batch.  This is
\* weak fairness of Next, WF_vars(Next), with ENABLED <<Next>>_vars written
\* out as the state predicate Running.
SpecFair == Spec /\ ([]<>~Running \/ []<><<Next>>_vars)

-----------------------------------------------------------------------------
(* process_table on its own: every table of a bounded family *)

WindowHours == (FirstDay * HoursPerDay)..((FirstDay + WindowDays) * HoursPerDay - 1)

\* Distances between consecutive rows, in hours.
Gaps == {0, 1, 17 * HoursPerDay, 19 * HoursPerDay}

RECURSIVE Steps(_, _)
Steps(start, gaps) ==
  IF gaps = <<>> THEN <<start>>
  ELSE <<start>> \o Steps(start + Head(gaps), Tail(gaps))

TransformTables ==
  {[schema |-> <<"datetime", "batch">>, columns |-> <<<<>>, <<>>>>]} \cup
  {[schema |-> <<"datetime", "batch">>,
    columns |-> <<Steps(start, gaps), [i \in 1..(Len(gaps) + 1) |-> i]>>] :
     start \in WindowHours,
     gaps \in UNION {[1..k -> Gaps] : k \in 0..(MaxTableRows - 1)}}

InitTransform ==
  /\ cmd = "transform"
  /\ pc = "process_table"
  /\ table \in TransformTables
  /\ out_table = EmptyTable
  /\ error = "none"
  /\ cfg = NoCfg
  /\ inExists = TRUE
  /\ outExists = FALSE
  /\ inFS = EmptyFS
  /\ outFS = EmptyFS
  /\ queue = {}
  /\ writer = EmptyWriter
  /\ uuid = 0
  /\ runs = 0
  /\ firstRun = <<>>
  /\ written = {}
  /\ outAtStart = [exists |-> FALSE, paths |-> {}]
  /\ layout = "disjoint"
  /\ processed = NoneProcessed
  /\ inAtStart = {}

TransformStep ==
  /\ pc = "process_table"
  /\ out_table' = process_table(table)
  /\ pc' = "returned"
  /\ UNCHANGED <<cmd, layout, processed, inAtStart,
                 error, cfg, inExists, outExists, inFS, outFS, queue,
                 writer, table, uuid, runs, outAtStart, firstRun, written>>

NextTransform == TransformStep

SpecTransform == InitTransform /\ [][NextTransform]_vars

-----------------------------------------------------------------------------
(* Claims *)

\* Days since 1970-01-01 of a civil date, by the closed formula over
\* 400-year eras of years starting in March.
DaysFromCivil(y, m, d) ==
  LET yy == IF m <= 2 THEN y - 1 ELSE y
      era == yy \div 400
      yoe == yy - era * 400
      mp == IF m > 2 THEN m - 3 ELSE m + 9
      doy == (153 * mp + 2) \div 5 + d - 1
      doe == yoe * 365 + yoe \div 4 - yoe \div 100 + doy
  IN  era * 146097 + doe - 719468

\* 2020-01-15, 2020-02-01 and 2020-02-20 at 00:00, in hours since the epoch.
ExampleDatetimes == <<438624, 439032, 439488>>

\* C9: process_table keeps the rows, their order and every original column,
\* and appends exactly year, month, day, each row's being the calendar
\* fields of that row's datetime; the datetimes [2020-01-15, 2020-02-01,
\* 2020-02-20] give year [2020, 2020, 2020] and month [1, 2, 2].
C9_TransformPurity ==
  pc = "returned" =>
    LET n == num_rows(table)
        k == Len(table.schema)
        dts == Column(table, "datetime")
    IN  /\ num_rows(out_table) = n
        /\ out_table.schema = table.schema \o <<"year", "month", "day">>
        /\ Len(out_table.columns) = k + 3
        /\ \A c \in 1..k : out_table.columns[c] = table.columns[c]
        /\ \A c \in (k + 1)..(k + 3) : Len(out_table.columns[c]) = n
        /\ \A i \in 1..n :
             LET y == out_table.columns[k + 1][i]
                 m == out_table.columns[k + 2][i]
                 d == out_table.columns[k + 3][i]
             IN  /\ m \in 1..12
                 /\ d \in 1..31
                 /\ DaysFromCivil(y, m, d) = dts[i] \div HoursPerDay
        /\ dts = ExampleDatetimes =>
             /\ Column(out_table, "year") = <<2020, 2020, 2020>>
             /\ Column(out_table, "month") = <<1, 2, 2>>

C9_Witness ==
  /\ pc = "returned"
  /\ Column(table, "datetime") = ExampleDatetimes
  /\ Column(out_table, "month") = <<1, 2, 2>>
  /\ Column(out_table, "day") = <<15, 1, 20>>

\* C10: when in-path is not a directory the command ends with
\* FileNotFoundError and out-path is as it was: nothing deleted or written.
C10_MissingInputNoEffect ==
  /\ [](~inExists =>
          /\ pc \in {"main", "raised"}
          /\ pc = "raised" => error = "FileNotFoundError"
          /\ DOMAIN outFS = outAtStart.paths
          /\ outExists = outAtStart.exists)
  /\ [][~inExists => UNCHANGED <<outFS, outExists>>]_vars

C10_Witness ==
  /\ ~inExists
  /\ pc = "raised"
  /\ error = "FileNotFoundError"
  /\ Cardinality(DOMAIN outFS) > 1

\* C1: when a compaction or an ingestion run has completed, the multiset of
\* rows under the output root, without the added year/month/day columns,
\* is the multiset of rows of the input.
C1_RowConservation ==
  pc = "done" => RowBag(outFS) = RowBag(inFS)

C1_Witness ==
  /\ pc = "done"
  /\ cmd = "compaction"
  /\ Cardinality(DOMAIN inFS) > 1
  /\ Cardinality(DOMAIN outFS) > 1
  /\ Len(RowsOfPaths(outFS, DOMAIN outFS)) = MaxRows
  /\ \E x \in DOMAIN RowBag(outFS) : RowBag(outFS)[x] > 1

\* C2: every row stored in an output file lies under the directory
\* year=<y>/month=<m> of its own year and month.
C2_PartitionCorrect ==
  \A p \in DOMAIN outFS :
    LET rows == FileRows(outFS[p])
    IN  \A i \in 1..Len(rows) :
          p.dir = <<dt_year(rows[i][1]), dt_month(rows[i][1])>>

C2_Witness ==
  \E p, q \in written \cap DOMAIN outFS :
    /\ p.dir # q.dir
    /\ FileRowCount(outFS[p]) > 0
    /\ FileRowCount(outFS[q]) > 0

WrittenFiles == written \cap DOMAIN outFS

\* C3 as stated: every output file of the writer holds at most
\* max_rows_per_file rows, for every threshold configuration.
C3_FileBoundAsStated ==
  cmd = "compaction" =>
    \A p \in WrittenFiles : FileRowCount(outFS[p]) <= cfg.max_rows_per_file

\* C3 as amended: when max_rows_per_file is greater than 0, every output
\* file, open or closed, holds at most max_rows_per_file rows, the rows
\* staged for an open file included; the file is rolled before the bound
\* would be exceeded. (0 sets no bound.)
C3_FileBound ==
  (cmd = "compaction" /\ cfg.max_rows_per_file > 0) =>
    /\ \A p \in WrittenFiles : FileRowCount(outFS[p]) <= cfg.max_rows_per_file
    /\ \A key \in DOMAIN writer :
         LET q == writer[key]
         IN  q.cur # NoPath =>
               FileRowCount(outFS[q.cur]) + Len(q.staged) <= cfg.max_rows_per_file

\* An input batch larger than max_rows_per_file was split over files.
C3_Witness ==
  /\ cmd = "compaction"
  /\ pc = "done"
  /\ cfg.max_rows_per_file > 0
  /\ \E p \in DOMAIN inFS : FileRowCount(inFS[p]) > cfg.max_rows_per_file
  /\ \E p \in WrittenFiles : FileRowCount(outFS[p]) = cfg.max_rows_per_file
  /\ Cardinality(WrittenFiles) > 1

FilesIn(paths, key) == {p \in paths : p.dir = key}

\* C5: after a completed compaction run, a partition that received output
\* holds exactly the files this run wrote and none of the files it held
\* before.
C5_ReplacementExact ==
  (cmd = "compaction" /\ pc = "done") =>
    \A key \in {p.dir : p \in written} :
      /\ FilesIn(DOMAIN outFS, key) = FilesIn(written, key)
      /\ FilesIn(outAtStart.paths, key) \cap DOMAIN outFS = {}

C5_Witness ==
  /\ cmd = "compaction"
  /\ pc = "done"
  /\ \E key \in {p.dir : p \in written} :
       /\ Cardinality(FilesIn(outAtStart.paths, key)) > 1
       /\ Cardinality(FilesIn(DOMAIN outFS, key)) > 1

\* C6: a second compaction run on the same input against the same output
\* root leaves the logical dataset of the first run: the same multiset of
\* rows under the same partition keys.
C6_Idempotent ==
  (cmd = "compaction" /\ pc = "done" /\ runs > 1) =>
    LogicalDataset(outFS) = firstRun

\* The second run has completed and its file names differ from the first's.
C6_Witness ==
  /\ cmd = "compaction"
  /\ pc = "done"
  /\ runs = 2
  /\ Cardinality(DOMAIN outFS) > 1
  /\ DOMAIN outFS \cap outAtStart.paths = {}
  /\ Cardinality(outAtStart.paths) > 1

HasValidFile(fs, key) == \E p \in DOMAIN fs : p.dir = key /\ ~fs[p].open

\* C7: when a compaction run is aborted, every partition that held a valid
\* file before the run still holds one. (Every file present when a run
\* starts is closed, hence valid.)
C7_CrashSafe ==
  (cmd = "compaction" /\ pc = "aborted") =>
    \A key \in {p.dir : p \in outAtStart.paths} : HasValidFile(outFS, key)

\* C8: a process_single_file call of an ingestion run leaves every file
\* already under the output root in place and unchanged.
C8_AppendOnly ==
  [][(cmd = "ingestion" /\ pc = "loop") =>
       \A p \in DOMAIN outFS : p \in DOMAIN outFS' /\ outFS'[p] = outFS[p]]_vars

\* Two calls have written into the same partition; both files are there.
C8_Witness ==
  /\ cmd = "ingestion"
  /\ \E p, q \in WrittenFiles :
       /\ p.dir = q.dir
       /\ p.name[1] # q.name[1]
       /\ FileRowCount(outFS[p]) > 0
       /\ FileRowCount(outFS[q]) > 0

\* The rows of the input that the partitioning routes to a key.
InputRowsOfKey(key) ==
  BagOfSeq(KeyedRowsOfPaths(inFS, {p \in DOMAIN inFS : p.dir = key}))

\* The per-key state Flushed: nothing buffered, no current file, every file
\* of the key closed, and every row routed to the key is in a row group.
Flushed(key) ==
  /\ key \in DOMAIN writer
  /\ writer[key].staged = <<>>
  /\ writer[key].cur = NoPath
  /\ \A p \in DOMAIN outFS : p.dir = key => ~outFS[p].open
  /\ BagOfSeq(KeyedRowsOfPaths(outFS, {p \in DOMAIN outFS : p.dir = key}))
       = InputRowsOfKey(key)

AllFlushed ==
  /\ \A p \in DOMAIN inFS : Flushed(p.dir)
  /\ \A key \in DOMAIN writer : Flushed(key)
  /\ \A p \in DOMAIN outFS : ~outFS[p].open

\* C11: once the scanner of a compaction run is exhausted the run returns,
\* and when a run of either command returns no output file is open; after a
\* compaction every key that received a row is Flushed: its residual rows
\* are in a final row group, its buffer is empty and its last file closed.
C11_EndOfStreamFlush ==
  /\ [](pc = "done" => \A p \in DOMAIN outFS : ~outFS[p].open)
  /\ []((cmd = "compaction" /\ pc = "done") => AllFlushed)
  /\ (cmd = "compaction" /\ pc = "write_dataset" /\ queue = {})
       ~> (pc = "done" /\ AllFlushed)

\* A run returned after writing, at end of stream, a final row group smaller
\* than min_rows_per_group, with two keys flushed.
C11_Witness ==
  /\ cmd = "compaction"
  /\ pc = "done"
  /\ Cardinality(DOMAIN writer) >= 2
  /\ \E p \in written :
       LET g == outFS[p].groups
       IN  /\ g # <<>>
           /\ Len(g[Len(g)]) < cfg.min_rows_per_group

\* C12: no step of a run deletes or changes a file that was under in-path
\* when the run started, and when the run returns every such file has been
\* read exactly once, whatever the two roots are.
C12_InputReadOnly ==
  /\ [][\A x \in inAtStart \cap DOMAIN UnderInPath :
         x \in DOMAIN UnderInPath' /\ UnderInPath'[x] = UnderInPath[x]]_vars
  /\ [](pc = "done" =>
         \A x \in inAtStart : x \in DOMAIN processed /\ processed[x] = 1)

====
